---- MODULE Spec2Model ----
(***************************************************************************)
(* Branch management utilities of the zeroshot CLI (lib/branch-manager.js) *)
(* as a state machine.  The state is the git working tree the functions    *)
(* are pointed at (their cwd argument) and the record of the last call.    *)
(* Every git command the functions run through execSync is an operator on  *)
(* the repository value that yields the command's exit status and its raw  *)
(* standard output as a string; the JavaScript around it (trim, split,     *)
(* includes, match, filter, try/catch) is computed on those strings.       *)
(***************************************************************************)
EXTENDS Integers, Sequences, FiniteSets, TLC

VARIABLES repo, last, run

vars == <<repo, last, run>>

(***************************************************************************)
(* Bounds of the model.                                                    *)
(***************************************************************************)
\* number of commits in the history
MaxCommits == 2
\* largest number of remote-tracking branches in a repository
MaxRemote == 2
\* longest protect list handed to getBranchesToClean
MaxProtect == 1

(***************************************************************************)
(* JavaScript values.  Strings are TLA+ strings; null is a token that no   *)
(* git output and no ref name can equal (ref names hold no blank).         *)
(***************************************************************************)
Null == "<js null>"

\* Boolean(v) as Array.prototype.filter(Boolean) applies it to a string or null
Truthy(v) == v # Null /\ v # ""

\* String.prototype.includes
Includes(s, t) ==
  \E i \in 1..(Len(s) - Len(t) + 1) : SubSeq(s, i, i + Len(t) - 1) = t

IsSpace(ch) == ch \in {" ", "\n", "\t", "\r"}

RECURSIVE TrimStart(_)
TrimStart(s) ==
  IF Len(s) > 0 /\ IsSpace(SubSeq(s, 1, 1)) THEN TrimStart(SubSeq(s, 2, Len(s))) ELSE s

RECURSIVE TrimEnd(_)
TrimEnd(s) ==
  IF Len(s) > 0 /\ IsSpace(SubSeq(s, Len(s), Len(s)))
  THEN TrimEnd(SubSeq(s, 1, Len(s) - 1)) ELSE s

\* String.prototype.trim
Trim(s) == TrimEnd(TrimStart(s))

\* index of the first occurrence of the one-character string ch in s from
\* position i on, Len(s) + 1 when there is none
RECURSIVE IndexFrom(_, _, _)
IndexFrom(s, ch, i) ==
  IF i > Len(s) THEN Len(s) + 1
  ELSE IF SubSeq(s, i, i) = ch THEN i ELSE IndexFrom(s, ch, i + 1)

\* String.prototype.split on a one-character separator: the sequence of the
\* pieces between separators (a trailing separator leaves a last piece "")
RECURSIVE Split(_, _)
Split(s, ch) ==
  LET k == IndexFrom(s, ch, 1)
  IN  IF k > Len(s) THEN <<s>>
      ELSE <<SubSeq(s, 1, k - 1)>> \o Split(SubSeq(s, k + 1, Len(s)), ch)

\* Array.prototype.join
RECURSIVE Join(_, _)
Join(parts, sep) ==
  IF Len(parts) = 0 THEN ""
  ELSE IF Len(parts) = 1 THEN parts[1]
  ELSE parts[1] \o sep \o Join(Tail(parts), sep)

\* Array.prototype.slice(1)
Slice1(parts) == IF Len(parts) = 0 THEN <<>> ELSE Tail(parts)

\* Array.prototype.includes
ArrayIncludes(arr, v) == \E i \in 1..Len(arr) : arr[i] = v

\* Array.prototype.map
MapSeq(arr, F(_)) == [i \in 1..Len(arr) |-> F(arr[i])]

Range(arr) == {arr[i] : i \in 1..Len(arr)}

RECURSIVE Concat(_)
Concat(lines) == IF Len(lines) = 0 THEN "" ELSE Head(lines) \o Concat(Tail(lines))

(***************************************************************************)
(* The repository at cwd.                                                  *)
(*   isRepo      cwd is inside a git working tree                          *)
(*   heads       refs/heads: the tip commit of each local branch, 0 when   *)
(*               the branch does not exist                                 *)
(*   head        HEAD: attached to the branch head.branch (which has no    *)
(*               commit yet when heads[head.branch] = 0), or detached at   *)
(*               the commit head.commit when head.branch = ""              *)
(*   originHead  the branch refs/remotes/origin/HEAD points at, "" when    *)
(*               that symbolic ref is not set                              *)
(*   remotes     refs/remotes: the remote-tracking branches, by short name *)
(*   upstream    the tip of the upstream (origin/<branch>) configured for  *)
(*               a local branch, 0 when it has none                        *)
(* Commits form a tree: commit 1 is the root and the parent of c is c \div *)
(* 2, so 2 and 3 are siblings that diverge from 1.                         *)
(***************************************************************************)
Commits == 1..MaxCommits

RECURSIVE IsAncestor(_, _)
IsAncestor(a, c) == a = c \/ (c > 1 /\ IsAncestor(a, c \div 2))

\* the local branch names, in the order git lists refs (by name)
LocalNames == <<"main", "mainline", "master">>

\* the refs under refs/remotes, in the order git lists refs (by name);
\* origin/HEAD is the symbolic ref, the others are remote-tracking branches
RemoteRefs ==
  <<"fork/feature/x", "origin/HEAD", "origin/feature/x", "origin/fix-HEAD-bug",
    "origin/main">>

RemoteNames == SelectSeq(RemoteRefs, LAMBDA f : f # "origin/HEAD")

OriginHeads == {"", "main"}

\* the local branches that can have an upstream: origin/<branch> is a known ref
Trackable == {b \in Range(LocalNames) : ("origin/" \o b) \in Range(RemoteNames)}

NoRepo ==
  [isRepo |-> FALSE,
   heads |-> [b \in Range(LocalNames) |-> 0],
   head |-> [branch |-> "main", commit |-> 0],
   originHead |-> "",
   remotes |-> {},
   upstream |-> [b \in Range(LocalNames) |-> 0]]

Repos ==
  {NoRepo} \cup
  {r \in [isRepo : {TRUE},
          heads : [Range(LocalNames) -> 0..MaxCommits],
          head : [branch : Range(LocalNames), commit : {0}]
                   \cup [branch : {""}, commit : Commits],
          originHead : OriginHeads,
          remotes : SUBSET Range(RemoteNames),
          upstream : [Range(LocalNames) -> 0..MaxCommits]] :
     /\ Cardinality(r.remotes) <= MaxRemote
     /\ \A b \in Range(LocalNames) :
          r.upstream[b] # 0 =>
            /\ b \in Trackable
            /\ r.heads[b] # 0
            /\ ("origin/" \o b) \in r.remotes}

\* the commit HEAD resolves to, 0 on a branch with no commit yet
HeadCommit(r) ==
  IF r.head.branch = "" THEN r.head.commit ELSE r.heads[r.head.branch]

\* the abbreviated object name git prints for a commit
ShortSha(c) == "12e55d" \o ToString(c)

\* git's description of a detached HEAD in branch listings
DetachedEntry(r) == "(HEAD detached at " \o ShortSha(r.head.commit) \o ")"

Detached(r) == r.head.branch = ""

\* result of execSync: the command's exit status and captured stdout; a
\* failed command makes execSync throw an Error with the message `stderr`
Ok(out) == [ok |-> TRUE, stdout |-> out, stderr |-> ""]
Failed(msg) == [ok |-> FALSE, stdout |-> "", stderr |-> msg]

Lines(lines) == Concat(MapSeq(lines, LAMBDA l : l \o "\n"))

ExistingLocal(r) == SelectSeq(LocalNames, LAMBDA b : r.heads[b] # 0)

\* refs/remotes/origin/HEAD is listed only when the ref it points at exists
OriginHeadListed(r) ==
  r.originHead # "" /\ ("origin/" \o r.originHead) \in r.remotes

ListedRemote(r) ==
  SelectSeq(RemoteRefs,
            LAMBDA f : IF f = "origin/HEAD" THEN OriginHeadListed(r) ELSE f \in r.remotes)

\* git rev-parse --git-dir
GitRevParseGitDir(r) ==
  IF r.isRepo THEN Ok(".git\n") ELSE Failed("fatal: not a git repository")

\* git symbolic-ref refs/remotes/origin/HEAD
GitSymbolicRefOriginHead(r) ==
  IF r.isRepo /\ r.originHead # ""
  THEN Ok("refs/remotes/origin/" \o r.originHead \o "\n")
  ELSE Failed("fatal: ref refs/remotes/origin/HEAD is not a symbolic ref")

\* git branch -a
GitBranchAll(r) ==
  IF ~r.isRepo THEN Failed("fatal: not a git repository")
  ELSE Ok(Lines(
         (IF Detached(r) THEN <<"* " \o DetachedEntry(r)>> ELSE <<>>)
         \o MapSeq(ExistingLocal(r),
                   LAMBDA b : (IF b = r.head.branch THEN "* " ELSE "  ") \o b)
         \o MapSeq(ListedRemote(r),
                   LAMBDA f : IF f = "origin/HEAD"
                              THEN "  remotes/origin/HEAD -> origin/" \o r.originHead
                              ELSE "  remotes/" \o f)))

\* git branch --show-current
GitBranchShowCurrent(r) ==
  IF ~r.isRepo THEN Failed("fatal: not a git repository")
  ELSE IF Detached(r) THEN Ok("")
  ELSE Ok(r.head.branch \o "\n")

\* git branch --format="%(refname:short)"
GitBranchFormat(r) ==
  IF ~r.isRepo THEN Failed("fatal: not a git repository")
  ELSE Ok(Lines((IF Detached(r) THEN <<DetachedEntry(r)>> ELSE <<>>)
                \o ExistingLocal(r)))

\* git branch -r --format="%(refname:short)"
GitBranchRemoteFormat(r) ==
  IF ~r.isRepo THEN Failed("fatal: not a git repository")
  ELSE Ok(Lines(ListedRemote(r)))

\* the commit a revision argument names (HEAD or a local branch), 0 when it
\* names none
RevParse(r, rev) ==
  IF rev = "HEAD" THEN HeadCommit(r)
  ELSE IF rev \in Range(LocalNames) THEN r.heads[rev]
  ELSE 0

\* git branch --merged <d> --format="%(refname:short)": <d> must name a
\* commit; lists HEAD (when detached) and the local branches whose tip is
\* reachable from that commit
GitBranchMerged(r, d) ==
  IF ~r.isRepo THEN Failed("fatal: not a git repository")
  ELSE IF RevParse(r, d) = 0
  THEN Failed("fatal: malformed object name " \o d)
  ELSE Ok(Lines(
         (IF Detached(r) /\ IsAncestor(r.head.commit, RevParse(r, d))
          THEN <<DetachedEntry(r)>> ELSE <<>>)
         \o SelectSeq(ExistingLocal(r),
                      LAMBDA b : IsAncestor(r.heads[b], RevParse(r, d)))))

\* the commit git branch -d tests a branch against: its upstream when it has
\* one, HEAD otherwise; 0 when HEAD has no commit yet
MergeReference(r, b) == IF r.upstream[b] # 0 THEN r.upstream[b] ELSE HeadCommit(r)

\* git branch <flag> "<b>", flag -d or -D: the command's result and the
\* repository it leaves.  The checked-out branch is never deleted; -d deletes
\* only a branch merged into its merge reference, -D any other branch
GitBranchDelete(r, flag, b) ==
  IF ~r.isRepo
  THEN [res |-> Failed("fatal: not a git repository"), repo |-> r]
  ELSE IF b = r.head.branch
  THEN [res |-> Failed("error: Cannot delete branch '" \o b \o "' checked out"),
        repo |-> r]
  ELSE IF ~(b \in Range(LocalNames) /\ r.heads[b] # 0)
  THEN [res |-> Failed("error: branch '" \o b \o "' not found."), repo |-> r]
  ELSE IF flag # "-D" /\ ~(MergeReference(r, b) # 0
                        /\ IsAncestor(r.heads[b], MergeReference(r, b)))
  THEN [res |-> Failed("error: The branch '" \o b \o "' is not fully merged."),
        repo |-> r]
  ELSE [res |-> Ok("Deleted branch " \o b \o "\n"),
        repo |-> [r EXCEPT !.heads[b] = 0, !.upstream[b] = 0]]

\* the local branches whose configured upstream is the ref <remote>/<b>
TrackersOf(remote, b) ==
  {l \in Trackable : remote \o "/" \o b = "origin/" \o l}

\* git push <remote> --delete "<b>": the remote accepts or rejects; when it
\* accepts, git drops the remote-tracking ref
GitPushDelete(r, remote, b, accepts) ==
  IF ~r.isRepo
  THEN [res |-> Failed("fatal: not a git repository"), repo |-> r]
  ELSE IF ~accepts
  THEN [res |-> Failed("error: failed to push some refs"), repo |-> r]
  ELSE [res |-> Ok(""),
        repo |-> [r EXCEPT
                    !.remotes = @ \ {remote \o "/" \o b},
                    !.upstream = [l \in Range(LocalNames) |->
                                    IF l \in TrackersOf(remote, b) THEN 0 ELSE @[l]]]]

(***************************************************************************)
(* lib/branch-manager.js.  cwd is the repository value.  The inspection    *)
(* functions catch every error, so they are total and yield their value;   *)
(* the deletion functions yield a completion: whether the call threw, and  *)
(* the value it returned or the message of the error it threw.             *)
(***************************************************************************)
isGitRepo(cwd) == IF GitRevParseGitDir(cwd).ok THEN TRUE ELSE FALSE

\* result.match(/refs\/remotes\/origin\/(.+)/): the first capture group of
\* the leftmost match, Null when there is no match
MatchOriginRef(result) ==
  LET p == "refs/remotes/origin/"
      at == {i \in 1..(Len(result) - Len(p)) :
               /\ SubSeq(result, i, i + Len(p) - 1) = p
               /\ SubSeq(result, i + Len(p), i + Len(p)) # "\n"}
  IN  IF at = {} THEN Null
      ELSE LET i == CHOOSE j \in at : \A k \in at : j <= k
           IN  Split(SubSeq(result, i + Len(p), Len(result)), "\n")[1]

\* the second try block of getDefaultBranch and its fallback
DetectDefaultBranch(cwd) ==
  LET e == GitBranchAll(cwd)
      branches == e.stdout
  IN  IF e.ok /\ Includes(branches, "main") THEN "main"
      ELSE IF e.ok /\ Includes(branches, "master") THEN "master"
      ELSE "main"

getDefaultBranch(cwd) ==
  LET e == GitSymbolicRefOriginHead(cwd)
      match == MatchOriginRef(Trim(e.stdout))
  IN  IF e.ok /\ match # Null THEN match ELSE DetectDefaultBranch(cwd)

getCurrentBranch(cwd) ==
  LET e == GitBranchShowCurrent(cwd)
  IN  IF e.ok THEN Trim(e.stdout) ELSE Null

listLocalBranches(cwd) ==
  LET e == GitBranchFormat(cwd)
  IN  IF e.ok
      THEN SelectSeq(MapSeq(Split(e.stdout, "\n"), Trim), LAMBDA b : b # "")
      ELSE <<>>

\* the callback of the second map in listRemoteBranches
ParseRemote(fullName) ==
  LET parts == Split(fullName, "/")
  IN  [remote |-> parts[1], branch |-> Join(Slice1(parts), "/"), fullName |-> fullName]

\* the callback of the filter in listRemoteBranches
KeepRemote(b) == b # "" /\ ~Includes(b, "HEAD")

listRemoteBranches(cwd) ==
  LET e == GitBranchRemoteFormat(cwd)
  IN  IF e.ok
      THEN MapSeq(SelectSeq(MapSeq(Split(e.stdout, "\n"), Trim), KeepRemote),
                  ParseRemote)
      ELSE <<>>

\* isBranchMerged with a catch block that answers true
isBranchMergedFailOpen(branch, cwd) ==
  LET defaultBranch == getDefaultBranch(cwd)
      e == GitBranchMerged(cwd, defaultBranch)
  IN  IF e.ok THEN ArrayIncludes(Split(e.stdout, "\n"), branch) ELSE TRUE

isBranchMerged(branch, cwd) ==
  LET defaultBranch == getDefaultBranch(cwd)
      e == GitBranchMerged(cwd, defaultBranch)
  IN  IF e.ok THEN ArrayIncludes(Split(e.stdout, "\n"), branch) ELSE FALSE

Return(v) == [threw |-> FALSE, value |-> v]

\* a catch block that throws the error on instead of returning an outcome
DeleteFailureRethrown(command, res) ==
  [threw |-> TRUE, value |-> "Command failed: " \o command \o "\n" \o res.stderr]

\* the catch block of deleteLocalBranch and deleteRemoteBranch
DeleteFailure(command, res) ==
  Return([success |-> FALSE, error |-> "Command failed: " \o command \o "\n" \o res.stderr])

\* deleteLocalBranch with the two flags swapped
deleteLocalBranchSwapped(branch, cwd, force) ==
  LET flag == IF force THEN "-d" ELSE "-D"
      g == GitBranchDelete(cwd, flag, branch)
  IN  [completion |->
         IF g.res.ok THEN Return([success |-> TRUE])
         ELSE DeleteFailure("git branch " \o flag \o " \"" \o branch \o "\"", g.res),
       repo |-> g.repo]

\* the call's completion and the repository it leaves
deleteLocalBranch(branch, cwd, force) ==
  LET flag == IF force THEN "-D" ELSE "-d"
      g == GitBranchDelete(cwd, flag, branch)
  IN  [completion |->
         IF g.res.ok THEN Return([success |-> TRUE])
         ELSE DeleteFailure("git branch " \o flag \o " \"" \o branch \o "\"", g.res),
       repo |-> g.repo]

\* deleteRemoteBranch without its try/catch: a failed push throws
deleteRemoteBranchUncaught(remote, branch, cwd, accepts) ==
  LET g == GitPushDelete(cwd, remote, branch, accepts)
  IN  [completion |->
         IF g.res.ok THEN Return([success |-> TRUE])
         ELSE [threw |-> TRUE, value |-> g.res.stderr],
       repo |-> g.repo]

\* accepts: whether the remote carries out the deletion
deleteRemoteBranch(remote, branch, cwd, accepts) ==
  LET g == GitPushDelete(cwd, remote, branch, accepts)
  IN  [completion |->
         IF g.res.ok THEN Return([success |-> TRUE])
         ELSE DeleteFailure("git push " \o remote \o " --delete \"" \o branch \o "\"",
                            g.res),
       repo |-> g.repo]

\* ProtectedBranches with the current branch left out of the set
ProtectedBranchesNoCurrent(cwd, protect) ==
  Range(SelectSeq(<<getDefaultBranch(cwd)>> \o protect, Truthy))

\* new Set([defaultBranch, currentBranch, ...protect].filter(Boolean))
ProtectedBranches(cwd, protect) ==
  Range(SelectSeq(<<getDefaultBranch(cwd), getCurrentBranch(cwd)>> \o protect, Truthy))

\* getBranchesToClean with the remote filter testing fullName, not branch
getBranchesToCleanByFullName(cwd, protect, includeRemote) ==
  LET protectedBranches == ProtectedBranches(cwd, protect)
      allLocal == listLocalBranches(cwd)
      localToClean == SelectSeq(allLocal, LAMBDA branch : branch \notin protectedBranches)
      remoteToClean ==
        IF includeRemote
        THEN SelectSeq(listRemoteBranches(cwd),
                       LAMBDA ref : ref.fullName \notin protectedBranches)
        ELSE <<>>
  IN  [local |-> localToClean, remote |-> remoteToClean]

getBranchesToClean(cwd, protect, includeRemote) ==
  LET protectedBranches == ProtectedBranches(cwd, protect)
      allLocal == listLocalBranches(cwd)
      localToClean == SelectSeq(allLocal, LAMBDA branch : branch \notin protectedBranches)
      remoteToClean ==
        IF includeRemote
        THEN SelectSeq(listRemoteBranches(cwd),
                       LAMBDA ref : ref.branch \notin protectedBranches)
        ELSE <<>>
  IN  [local |-> localToClean, remote |-> remoteToClean]

(***************************************************************************)
(* The state machine: one action per exported function.  Each call is made *)
(* on the repository as it stands; `last` records the call, what it        *)
(* returned and the repository it was made on.                             *)
(***************************************************************************)
\* branch names a caller passes: the known names, the empty string and
\* whatever listLocalBranches reports
BranchInputs(r) == Range(LocalNames) \cup {""} \cup Range(listLocalBranches(r))

\* {remote, branch} pairs a caller passes
RemoteInputs == {ParseRemote(f) : f \in Range(RemoteNames)}

\* entries of a protect list
ProtectNames == {"mainline", "feature/x"}

ProtectLists == UNION {[1..n -> ProtectNames] : n \in 0..MaxProtect}

NoCall(r) == [op |-> "none", args |-> <<>>, ret |-> Null, pre |-> r]

Idle == [pc |-> "idle"]

Init ==
  /\ repo \in Repos
  /\ last = NoCall(repo)
  /\ run = Idle

\* the caller is between two calls
Ready == run.pc = "idle" /\ last.op = "none"

Call(op, args, ret) == last' = [op |-> op, args |-> args, ret |-> ret, pre |-> repo]

IsGitRepo ==
  /\ Ready
  /\ Call("isGitRepo", <<>>, isGitRepo(repo))
  /\ UNCHANGED <<repo, run>>

GetDefaultBranch ==
  /\ Ready
  /\ Call("getDefaultBranch", <<>>, getDefaultBranch(repo))
  /\ UNCHANGED <<repo, run>>

GetCurrentBranch ==
  /\ Ready
  /\ Call("getCurrentBranch", <<>>, getCurrentBranch(repo))
  /\ UNCHANGED <<repo, run>>

ListLocalBranches ==
  /\ Ready
  /\ Call("listLocalBranches", <<>>, listLocalBranches(repo))
  /\ UNCHANGED <<repo, run>>

ListRemoteBranches ==
  /\ Ready
  /\ Call("listRemoteBranches", <<>>, listRemoteBranches(repo))
  /\ UNCHANGED <<repo, run>>

IsBranchMerged ==
  /\ Ready
  /\ \E branch \in BranchInputs(repo) :
       Call("isBranchMerged", [branch |-> branch], isBranchMerged(branch, repo))
  /\ UNCHANGED <<repo, run>>

DeleteLocalBranch ==
  /\ Ready
  /\ \E branch \in BranchInputs(repo), force \in BOOLEAN :
       LET d == deleteLocalBranch(branch, repo, force)
       IN  /\ Call("deleteLocalBranch", [branch |-> branch, force |-> force],
                   d.completion)
           /\ repo' = d.repo
  /\ UNCHANGED run

DeleteRemoteBranch ==
  /\ Ready
  /\ \E ref \in RemoteInputs, accepts \in BOOLEAN :
       LET d == deleteRemoteBranch(ref.remote, ref.branch, repo, accepts)
       IN  /\ Call("deleteRemoteBranch", [remote |-> ref.remote, branch |-> ref.branch],
                   d.completion)
           /\ repo' = d.repo
  /\ UNCHANGED run

\* a planning call that also removes the first branch it plans to remove
GetBranchesToCleanPruning ==
  /\ Ready
  /\ \E protect \in ProtectLists, includeRemote \in BOOLEAN :
       LET plan == getBranchesToClean(repo, protect, includeRemote)
       IN  /\ Call("getBranchesToClean",
                   [protect |-> protect, includeRemote |-> includeRemote], plan)
           /\ repo' = IF plan.local = <<>> THEN repo
                      ELSE GitBranchDelete(repo, "-D", plan.local[1]).repo
  /\ UNCHANGED run

GetBranchesToClean ==
  /\ Ready
  /\ \E protect \in ProtectLists, includeRemote \in BOOLEAN :
       Call("getBranchesToClean",
            [protect |-> protect, includeRemote |-> includeRemote],
            getBranchesToClean(repo, protect, includeRemote))
  /\ UNCHANGED <<repo, run>>

(***************************************************************************)
(* The cleanup run of the command-line layer (`branches clean`): plan,     *)
(* then one deletion attempt per candidate, local candidates first, each   *)
(* in the order the plan lists it, counting the deleted and the skipped.   *)
(* An error thrown by a deletion call is caught by nobody and ends the     *)
(* command (pc "aborted").                                                 *)
(***************************************************************************)
LocalTarget(branch) == [remote |-> "", branch |-> branch]

RemoteTarget(ref) == [remote |-> ref.remote, branch |-> ref.branch]

\* the candidates of a plan, in the order they are attempted
Candidates(plan) == MapSeq(plan.local, LocalTarget) \o MapSeq(plan.remote, RemoteTarget)

CleanStart ==
  /\ Ready
  /\ isGitRepo(repo)
  /\ \E protect \in ProtectLists, includeRemote \in BOOLEAN, force \in BOOLEAN :
       LET plan == getBranchesToClean(repo, protect, includeRemote)
       IN  /\ Call("getBranchesToClean",
                   [protect |-> protect, includeRemote |-> includeRemote], plan)
           /\ run' = [pc |-> "deleting", force |-> force,
                      candidates |-> Candidates(plan), attempts |-> <<>>,
                      deleted |-> 0, skipped |-> 0]
  /\ UNCHANGED repo

\* the run after the deletion call d on target: aborted when the call threw,
\* else the outcome is recorded and counted
Aggregate(r, target, completion) ==
  IF completion.threw THEN [r EXCEPT !.pc = "aborted"]
  ELSE [r EXCEPT
          !.attempts = Append(@, [target |-> target,
                                  success |-> completion.value.success]),
          !.deleted = IF completion.value.success THEN @ + 1 ELSE @,
          !.skipped = IF completion.value.success THEN @ ELSE @ + 1]

CleanAttempt ==
  /\ run.pc = "deleting"
  /\ Len(run.attempts) < Len(run.candidates)
  /\ LET target == run.candidates[Len(run.attempts) + 1]
     IN  \/ /\ target.remote = ""
            /\ LET d == deleteLocalBranch(target.branch, repo, run.force)
               IN  /\ Call("deleteLocalBranch",
                           [branch |-> target.branch, force |-> run.force],
                           d.completion)
                   /\ repo' = d.repo
                   /\ run' = Aggregate(run, target, d.completion)
         \/ /\ target.remote # ""
            /\ \E accepts \in BOOLEAN :
                 LET d == deleteRemoteBranch(target.remote, target.branch, repo, accepts)
                 IN  /\ Call("deleteRemoteBranch",
                             [remote |-> target.remote, branch |-> target.branch],
                             d.completion)
                     /\ repo' = d.repo
                     /\ run' = Aggregate(run, target, d.completion)

CleanReport ==
  /\ run.pc = "deleting"
  /\ Len(run.attempts) = Len(run.candidates)
  /\ run' = [run EXCEPT !.pc = "done"]
  /\ UNCHANGED <<repo, last>>

CleanExit ==
  /\ run.pc \in {"done", "aborted"}
  /\ run' = Idle
  /\ last' = NoCall(repo)
  /\ UNCHANGED repo

\* the caller has taken the result of the last call and goes on
Continue ==
  /\ run.pc = "idle"
  /\ last.op # "none"
  /\ last' = NoCall(repo)
  /\ UNCHANGED <<repo, run>>

Next ==
  \/ Continue
  \/ IsGitRepo
  \/ GetDefaultBranch
  \/ GetCurrentBranch
  \/ ListLocalBranches
  \/ ListRemoteBranches
  \/ IsBranchMerged
  \/ DeleteLocalBranch
  \/ DeleteRemoteBranch
  \/ GetBranchesToClean

\* the library, called in any order
Spec == Init /\ [][Next]_vars

NextClean ==
  \/ CleanStart
  \/ CleanAttempt
  \/ CleanReport
  \/ CleanExit

\* cleanup runs, one after the other
SpecClean == Init /\ [][NextClean]_vars

(***************************************************************************)
(* Properties.                                                             *)
(***************************************************************************)
\* the protected set of a planning call: the default branch, the current
\* branch and the protect list, null and empty entries left out
ProtectedSet(r, protect) ==
  ({getDefaultBranch(r), getCurrentBranch(r)} \cup Range(protect)) \ {Null, ""}

Planned == last.op = "getBranchesToClean"

\* C1: the local candidates getBranchesToClean returns are the entries of
\* listLocalBranches outside the protected set, in listing order: no
\* protected name is a candidate and every other listed branch is one.
C1_LocalCandidates ==
  Planned =>
    LET listing == listLocalBranches(last.pre)
        protected == ProtectedSet(last.pre, last.args.protect)
        local == last.ret.local
    IN  /\ local = SelectSeq(listing, LAMBDA b : b \notin protected)
        /\ getDefaultBranch(last.pre) \notin Range(local)
        /\ getCurrentBranch(last.pre) \notin Range(local)
        /\ \A i \in 1..Len(last.args.protect) : last.args.protect[i] \notin Range(local)
        /\ \A i \in 1..Len(listing) :
             listing[i] \notin protected => listing[i] \in Range(local)

\* a plan in which the default branch, the current branch and an explicitly
\* protected branch are all listed and held back, and a candidate remains
C1_Witness ==
  /\ Planned
  /\ LET listing == Range(listLocalBranches(last.pre))
     IN  /\ getDefaultBranch(last.pre) \in listing
         /\ getCurrentBranch(last.pre) \in listing
         /\ \E i \in 1..Len(last.args.protect) : last.args.protect[i] \in listing
         /\ Len(last.ret.local) >= 1

\* C2: without includeRemote the remote candidates are empty; with it they
\* are the listed remote refs whose branch name is outside the protected
\* set, whatever the remote.
C2_RemoteCandidates ==
  Planned =>
    LET listing == listRemoteBranches(last.pre)
        protected == ProtectedSet(last.pre, last.args.protect)
        remote == last.ret.remote
    IN  /\ ~last.args.includeRemote => remote = <<>>
        /\ last.args.includeRemote =>
             /\ remote = SelectSeq(listing, LAMBDA ref : ref.branch \notin protected)
             /\ \A i \in 1..Len(listing) :
                  (listing[i].branch \in protected) <=> (listing[i] \notin Range(remote))

\* a plan with includeRemote in which one protected name is held back on two
\* remotes
C2_Witness ==
  /\ Planned
  /\ last.args.includeRemote
  /\ LET listing == listRemoteBranches(last.pre)
         protected == ProtectedSet(last.pre, last.args.protect)
     IN  \E i, j \in 1..Len(listing) :
           /\ listing[i].remote # listing[j].remote
           /\ listing[i].branch = listing[j].branch
           /\ listing[i].branch \in protected
           /\ listing[i] \notin Range(last.ret.remote)
           /\ listing[j] \notin Range(last.ret.remote)

\* c is reachable from the commit `from` (there is none when from = 0)
Reachable(c, from) == from # 0 /\ IsAncestor(c, from)

\* the last call was deleteLocalBranch on a local branch that existed
DeletedExisting ==
  /\ last.op = "deleteLocalBranch"
  /\ last.args.branch \in Range(LocalNames)
  /\ last.pre.heads[last.args.branch] # 0

Succeeded == ~last.ret.threw /\ last.ret.value.success

Refused == ~last.ret.threw /\ ~last.ret.value.success

StillListed(b) == b \in Range(listLocalBranches(repo))

C4_DeletionOutcome ==
  last.op \in {"deleteLocalBranch", "deleteRemoteBranch"} =>
    /\ ~last.ret.threw
    /\ \/ /\ DOMAIN last.ret.value = {"success"}
          /\ last.ret.value.success = TRUE
       \/ /\ DOMAIN last.ret.value = {"success", "error"}
          /\ last.ret.value.success = FALSE
          /\ last.ret.value.error # Null
          /\ Len(last.ret.value.error) > 0
    /\ ~last.ret.value.success =>
         /\ repo.heads = last.pre.heads
         /\ repo.head = last.pre.head
         /\ listLocalBranches(repo) = listLocalBranches(last.pre)
         /\ getCurrentBranch(repo) = getCurrentBranch(last.pre)

\* a rejected remote deletion, made while local branches exist
C4_Witness ==
  /\ last.op = "deleteRemoteBranch"
  /\ Refused
  /\ last.pre.isRepo
  /\ Len(listLocalBranches(last.pre)) >= 2
  /\ (last.args.remote \o "/" \o last.args.branch) \in last.pre.remotes

\* b names a local branch of r that exists
IsLocalBranch(r, b) == r.isRepo /\ b \in Range(LocalNames) /\ r.heads[b] # 0

\* the last call asked, in a repository, whether the default branch itself
\* is merged
AskedDefaultMerged ==
  /\ last.op = "isBranchMerged"
  /\ last.pre.isRepo
  /\ last.args.branch = getDefaultBranch(last.pre)

\* C5 as stated: isBranchMerged of the branch getDefaultBranch returns is
\* true in every repository state.
C5_AsStated == AskedDefaultMerged => last.ret = TRUE

\* C5, amended: isBranchMerged of the branch getDefaultBranch returns is true
\* exactly when a local branch of that name exists.
C5_DefaultMerged ==
  AskedDefaultMerged =>
    (last.ret = TRUE <=> IsLocalBranch(last.pre, getDefaultBranch(last.pre)))

\* the default branch comes from the name heuristic (origin's HEAD is not
\* set), exists locally and is reported merged
C5_Witness ==
  /\ AskedDefaultMerged
  /\ last.pre.originHead = ""
  /\ IsLocalBranch(last.pre, last.args.branch)
  /\ last.ret = TRUE

\* C6 as stated: isBranchMerged(branch) is true exactly when branch names a
\* local branch whose tip is reachable from the default branch's tip, and
\* false whenever the default branch names no commit.
C6_AsStated ==
  last.op = "isBranchMerged" =>
    LET b == last.args.branch
        d == getDefaultBranch(last.pre)
    IN  last.ret = (/\ IsLocalBranch(last.pre, b)
                    /\ IsLocalBranch(last.pre, d)
                    /\ IsAncestor(last.pre.heads[b], last.pre.heads[d]))

\* a ref's short name cut at its first "/": the remote and the branch
CutAtFirstSlash(fullName) ==
  LET k == IndexFrom(fullName, "/", 1)
  IN  [remote |-> SubSeq(fullName, 1, k - 1),
       branch |-> SubSeq(fullName, k + 1, Len(fullName))]

\* the names of the local and remote branches of r
KnownBranchNames(r) ==
  Range(ExistingLocal(r)) \cup {CutAtFirstSlash(f).branch : f \in r.remotes}

\* the resolution order of the default branch, on exact branch names
ResolvedDefault(r) ==
  IF r.isRepo /\ r.originHead # "" THEN r.originHead
  ELSE IF r.isRepo /\ "main" \in KnownBranchNames(r) THEN "main"
  ELSE IF r.isRepo /\ "master" \in KnownBranchNames(r) THEN "master"
  ELSE "main"

\* C7 as stated: getDefaultBranch is origin's HEAD branch when that resolves,
\* else "main" if a branch is named exactly "main", else "master" if one is
\* named exactly "master", else "main".
C7_AsStated ==
  last.op = "getDefaultBranch" => last.ret = ResolvedDefault(last.pre)

\* C8 as stated: getCurrentBranch is the checked-out branch's name, and null
\* on a detached HEAD or a failed query.
C8_AsStated ==
  last.op = "getCurrentBranch" =>
    last.ret = (IF last.pre.isRepo /\ ~Detached(last.pre)
                THEN last.pre.head.branch ELSE Null)

\* C9 as stated: listRemoteBranches has one entry per remote-tracking branch
\* (the symbolic origin/HEAD is none), cut at its first "/".
C9_AsStated ==
  last.op = "listRemoteBranches" =>
    /\ {[remote |-> e.remote, branch |-> e.branch] : e \in Range(last.ret)}
         = {CutAtFirstSlash(f) : f \in last.pre.remotes}
    /\ Len(last.ret) = Cardinality(last.pre.remotes)

\* the number of attempts of the run so far that succeeded
Successes == Cardinality({i \in 1..Len(run.attempts) : run.attempts[i].success})

\* C10: in a cleanup run the candidates are attempted one by one in plan
\* order, each once; no attempt ends the run early, whatever its outcome;
\* and at the end deleted + skipped is the number of candidates.
C10_CleanupRun ==
  /\ run.pc # "aborted"
  /\ run.pc \in {"deleting", "done"} =>
       /\ \A i, j \in 1..Len(run.candidates) :
            i # j => run.candidates[i] # run.candidates[j]
       /\ Len(run.attempts) <= Len(run.candidates)
       /\ \A i \in 1..Len(run.attempts) : run.attempts[i].target = run.candidates[i]
       /\ run.deleted = Successes
       /\ run.skipped = Len(run.attempts) - Successes
  /\ run.pc = "done" =>
       /\ Len(run.attempts) = Len(run.candidates)
       /\ run.deleted + run.skipped = Len(run.candidates)

\* a finished run in which a deletion failed and a later one succeeded
C10_Witness ==
  /\ run.pc = "done"
  /\ \E i, j \in 1..Len(run.attempts) :
       /\ i < j
       /\ ~run.attempts[i].success
       /\ run.attempts[j].success
  /\ run.deleted >= 1
  /\ run.skipped >= 1

\* the calls that inspect or plan
ReadOnlyOps ==
  {"isGitRepo", "getDefaultBranch", "getCurrentBranch", "listLocalBranches",
   "listRemoteBranches", "isBranchMerged", "getBranchesToClean"}

\* C11: an inspection call (isGitRepo, getDefaultBranch, getCurrentBranch,
\* listLocalBranches, listRemoteBranches, isBranchMerged) or a planning call
\* (getBranchesToClean) leaves the repository as it was: the same branches
\* at the same tips, the same checkout, the same remote-tracking branches.
\* So listLocalBranches called again, after any number of such calls and no
\* deletion, returns the same list in the same order: the list depends on
\* the repository alone, and the repository is the one the call before saw.
C11_ReadOnly ==
  /\ last.op \in ReadOnlyOps \cup {"none"} =>
       /\ repo.heads = last.pre.heads
       /\ repo.head = last.pre.head
       /\ repo = last.pre
       /\ listLocalBranches(repo) = listLocalBranches(last.pre)
  /\ last.op = "listLocalBranches" => last.ret = listLocalBranches(repo)

\* a planning call that found a local branch to remove has returned, and
\* listLocalBranches still reports that branch among two or more
C11_Witness ==
  /\ last.op = "getBranchesToClean"
  /\ Len(last.ret.local) >= 1
  /\ ArrayIncludes(listLocalBranches(repo), last.ret.local[1])
  /\ Len(listLocalBranches(repo)) >= 2

\* the commits reachable from some local branch of r
LocalBranchCommits(r) ==
  {c \in Commits : \E b \in Range(LocalNames) : Reachable(c, r.heads[b])}

\* the last call was getBranchesToClean or deleteLocalBranch without force
PlannedOrSafelyDeleted ==
  \/ last.op = "getBranchesToClean"
  \/ last.op = "deleteLocalBranch" /\ ~last.args.force

\* C12 as stated: no call of getBranchesToClean or of deleteLocalBranch
\* without force, from any state, takes a commit out of reach of the local
\* branches: every commit that was reachable from some local branch before
\* the call is reachable from a local branch that remains after it.  (Over
\* a sequence of such calls the same follows call by call, and one call is a
\* sequence.)
C12_AsStated ==
  PlannedOrSafelyDeleted =>
    LocalBranchCommits(last.pre) \subseteq LocalBranchCommits(repo)

====
